---- MODULE Spec2Model ----
(***************************************************************************)
(* Model of the stereo-slide to VR pipeline: main.py (process_slide, main), *)
(* processors/mount_detector.py, processors/noise_reducer.py,              *)
(* processors/vr_converter.py, utils/image_loader.py, utils/image_saver.py *)
(*                                                                         *)
(* An image is a record [w, h, px]: its width, its height and a trace px   *)
(* of the operations that produced its pixels (a sequence of tuples, each  *)
(* a tag followed by integers).  Two images are equal iff they have the    *)
(* same size and were produced by the same operations with the same        *)
(* parameters from the same source region.                                 *)
(***************************************************************************)
EXTENDS Integers, Sequences, FiniteSets, TLC

VARIABLES
    \* ---- process_slide / main (specification Spec)
    args,        \* the arguments of process_slide
    infile,      \* what the input path holds: "missing", "undecodable" or a scene
    pc,          \* position of the run inside main / process_slide
    run,         \* number of the current invocation of main
    image,       \* loader.load_image's result
    eyes,        \* <<left_image, right_image>>
    vr_image,    \* converter.create_vr_image's result
    exc,         \* the exception caught by process_slide's except clause
    stdout,      \* what the run printed
    dirs,        \* directories that exist
    files,       \* files that exist: path -> image written
    written,     \* paths written by the current run
    stages,      \* the stages the current run has entered, in order
    saved,       \* save_image's return value
    exitcode,    \* exit status of main
    outcomes,    \* per finished run: what it printed, wrote and returned
    now,         \* datetime.now(), in seconds
    \* ---- standardize_windows on its own (specification SpecStd)
    stdIn, stdDebug, stdOut,
    \* ---- create_vr_image and np.hstack on their own (specification SpecVR)
    vrIn, vrTarget, vrOut, hsOut,
    \* ---- detect_windows on its own (specification SpecDetect)
    detIn, detOut,
    \* ---- the two eye chains on one NoiseReducer (specification SpecPar)
    reducer,     \* BILATERAL_PARAMS / NLM_PARAMS of the shared NoiseReducer
    popts,       \* the options process_stereo_pair was called with
    eyeIn,       \* eye -> input image
    epc,         \* eye -> position in process_vintage_photo / reduce_noise
    eyeImg,      \* eye -> the eye's local `result`
    eyeLoc,      \* eye -> values the eye has read from the reducer
    dbgFiles,    \* debug files written by the chains: name -> eye that wrote last
    overlap,     \* whether an eye has taken a step while the other was mid-chain
    \* ---- reduce_noise called repeatedly on one NoiseReducer (specification SpecReduce)
    rnParams,    \* BILATERAL_PARAMS / NLM_PARAMS of the instance
    rnDebug,     \* the instance's debug_mode
    rnCalls,     \* the calls made so far: method, strength and returned image
    rnFiles,     \* debug files written
    \* ---- the window filter of detect_windows on one rectangle (specification SpecFilter)
    fltIn,       \* image width W and the bounding rectangle's w, h
    fltOut       \* whether the rectangle was accepted

pipeVars == <<args, infile, pc, run, image, eyes, vr_image, exc, stdout, dirs,
              files, written, stages, saved, exitcode, outcomes, now>>
stdVars  == <<stdIn, stdDebug, stdOut>>
vrVars   == <<vrIn, vrTarget, vrOut, hsOut>>
detVars  == <<detIn, detOut>>
parVars  == <<reducer, popts, eyeIn, epc, eyeImg, eyeLoc, dbgFiles, overlap>>
rnVars   == <<rnParams, rnDebug, rnCalls, rnFiles>>
fltVars  == <<fltIn, fltOut>>
unitVars == <<rnVars, fltVars>>
vars     == <<pipeVars, stdVars, vrVars, detVars, parVars, unitVars>>
otherThanPipe == <<stdVars, vrVars, detVars, parVars, unitVars>>

----------------------------------------------------------------------------
(* Bounds of the model *)
MaxSquares == 3     \* squares in a scene / windows in a list
MaxDim     == 2     \* largest window side given to standardize_windows alone
MaxEye     == 2     \* largest eye-image side given to create_vr_image alone
MaxRuns    == 2     \* invocations of main on the same input

(* Program constants *)
VR_WIDTH          == 2160
VR_HEIGHT         == 1200
STAPLE_MARGIN     == 15
MIN_WINDOW_RATIO_PCT == 10   \* MIN_WINDOW_RATIO = 0.1
MAX_WINDOW_RATIO_PCT == 40   \* MAX_WINDOW_RATIO = 0.4
BARREL_STRENGTH_PCT  == 60   \* apply_barrel_distortion's default strength 0.6

None == [type |-> "None", msg |-> "", arg |-> 0]
Raise(t, m, a) == [type |-> t, msg |-> m, arg |-> a]
(* the outcome of a call: the exception it raised (None if it returned), *)
(* the value it returned and the files it wrote                          *)
Returned(v, fs) == [exc |-> None, val |-> v, files |-> fs]
Raised(e, fs) == [exc |-> e, val |-> <<>>, files |-> fs]
Failed(r) == r.exc # None

Min(a, b) == IF a <= b THEN a ELSE b
Max(a, b) == IF a >= b THEN a ELSE b
Abs(a) == IF a < 0 THEN -a ELSE a

Img(w, h, px) == [w |-> w, h |-> h, px |-> px]
NoImage == Img(0, 0, <<>>)
IsEmpty(img) == img.w = 0 \/ img.h = 0

----------------------------------------------------------------------------
(* numpy basic slicing a[start:stop] on an axis of length n: negative       *)
(* indices count from the end, then both are clamped to 0..n.               *)
SliceIndex(n, i) == IF i < 0 THEN Max(0, n + i) ELSE Min(n, i)
SliceStart(n, start, stop) == SliceIndex(n, start)
SliceLen(n, start, stop) == Max(0, SliceIndex(n, stop) - SliceIndex(n, start))

(* image[y0:y1, x0:x1] *)
Slice2D(img, y0, y1, x0, x1, tag) ==
    Img(SliceLen(img.w, x0, x1), SliceLen(img.h, y0, y1),
        Append(img.px, <<tag, SliceStart(img.w, x0, x1), SliceStart(img.h, y0, y1),
                         SliceLen(img.w, x0, x1), SliceLen(img.h, y0, y1)>>))

----------------------------------------------------------------------------
(* Scenes: what a decoded input file shows.  A scene is a two-level image   *)
(* of width W and height H: a background ("dark" or "light") carrying       *)
(* axis-aligned rectangles of the opposite level, listed in the order in    *)
(* which findContours reports them.  The rectangles are disjoint, apart     *)
(* from each other and from the border by more than the 5x5 kernels.        *)
Rect(x, y, w, h) == [x |-> x, y |-> y, w |-> w, h |-> h]

SlotX(W, i) == CASE i = 1 -> (65 * W) \div 100
                 [] i = 2 -> (10 * W) \div 100
                 [] i = 3 -> (10 * W) \div 100
                 [] i = 4 -> (65 * W) \div 100
                 [] OTHER -> (375 * W) \div 1000
SlotY(W, i) == CASE i \in {1, 2} -> (4 * W) \div 100
                 [] i \in {3, 4} -> (28 * W) \div 100
                 [] OTHER -> (4 * W) \div 100

Scene(W, bg, shapes) ==
    [W |-> W, H |-> W \div 2, bg |-> bg,
     squares |-> [i \in 1..Len(shapes) |->
                    Rect(SlotX(W, i), SlotY(W, i), shapes[i][1], shapes[i][2])]]

SeqsUpTo(S, n) == UNION {[1..k -> S] : k \in 0..n}

ImageWidths == {1000, 200}
(* rectangle sizes <<w, h>> offered at each image width *)
DetShapes(W) == IF W = 1000 THEN {<<180, 180>>, <<170, 180>>, <<90, 90>>, <<150, 180>>,
                                  <<110, 120>>}
                            ELSE {<<25, 25>>, <<40, 40>>, <<36, 40>>, <<44, 40>>}
PipeShapes(W) == IF W = 1000 THEN {<<180, 180>>, <<170, 180>>}
                             ELSE {<<25, 25>>, <<40, 40>>}
DetScenes == UNION {{Scene(W, bg, sh) : bg \in {"dark", "light"},
                                        sh \in SeqsUpTo(DetShapes(W), MaxSquares)}
                    : W \in ImageWidths}
PipeScenes == UNION {{Scene(W, bg, sh) : bg \in {"dark", "light"},
                                         sh \in SeqsUpTo(PipeShapes(W), MaxSquares)}
                     : W \in ImageWidths}

(* cv2.imread of a scene *)
Decoded(scene) == Img(scene.W, scene.H, << <<"src", scene.W, scene.H>> >>)

----------------------------------------------------------------------------
(* MountDetector.detect_windows *)

(* Lines 50-71: grayscale, blur, Otsu threshold (THRESH_BINARY: the lighter *)
(* class becomes 255), bitwise_not (the darker class becomes 255), closing  *)
(* and opening, then the outer contours (RETR_EXTERNAL: holes are ignored)  *)
(* of the white class, each approximated and bounded by a rectangle.        *)
(* Dark rectangles on a light background are the white class themselves;    *)
(* with light rectangles on a dark background the white class is the        *)
(* background, one region whose outer contour is the image border.          *)
BoundingRects(scene) ==
    IF scene.bg = "light"
    THEN scene.squares
    ELSE << Rect(0, 0, scene.W, scene.H) >>

(* Lines 75-76: int(img_width * RATIO) *)
min_window_size(W) == (W * MIN_WINDOW_RATIO_PCT) \div 100
max_window_size(W) == (W * MAX_WINDOW_RATIO_PCT) \div 100

(* Lines 89-90 and 95: abs(1 - w / h) < 0.1 in double arithmetic.  The      *)
(* doubles agree with the exact comparison except where w/h = 9/10, where   *)
(* 1 - w/h rounds to 0.09999999999999998 and the test passes.               *)
AspectOK(w, h) == 10 * Abs(h - w) < h \/ 10 * w = 9 * h

(* Lines 93-95 *)
Accepted(W, r) ==
    /\ min_window_size(W) < r.w /\ r.w < max_window_size(W)
    /\ min_window_size(W) < r.h /\ r.h < max_window_size(W)
    /\ AspectOK(r.w, r.h)

(* Lines 27-43: remove_staples *)
remove_staples(window_image) ==
    Slice2D(window_image, STAPLE_MARGIN, window_image.h - STAPLE_MARGIN,
            STAPLE_MARGIN, window_image.w - STAPLE_MARGIN, "staples")

Window(x, y, width, height, img) ==
    [x |-> x, y |-> y, width |-> width, height |-> height, image |-> img]

(* Lines 97-112: crop, remove staples, record the cleaned dimensions *)
MakeWindow(img, r) ==
    LET window_image == Slice2D(img, r.y, r.y + r.h, r.x, r.x + r.w, "crop")
        cleaned_image == remove_staples(window_image)
    IN  Window(r.x + STAPLE_MARGIN, r.y + STAPLE_MARGIN,
               cleaned_image.w, cleaned_image.h, cleaned_image)

(* Line 115: list.sort(key = x), a stable sort *)
RECURSIVE InsertByX(_, _)
InsertByX(sorted, win) ==
    IF sorted = <<>> THEN <<win>>
    ELSE IF sorted[Len(sorted)].x <= win.x THEN Append(sorted, win)
    ELSE Append(InsertByX(SubSeq(sorted, 1, Len(sorted) - 1), win), sorted[Len(sorted)])
RECURSIVE SortByX(_)
SortByX(ws) ==
    IF ws = <<>> THEN <<>>
    ELSE InsertByX(SortByX(SubSeq(ws, 1, Len(ws) - 1)), ws[Len(ws)])

RECURSIVE FilterWindows(_, _, _)
FilterWindows(img, W, rects) ==
    IF rects = <<>> THEN <<>>
    ELSE LET rest == FilterWindows(img, W, SubSeq(rects, 1, Len(rects) - 1))
             r == rects[Len(rects)]
         IN  IF Accepted(W, r) THEN Append(rest, MakeWindow(img, r)) ELSE rest

(* Lines 45-126, the returned list *)
detect_windows(scene) ==
    SortByX(FilterWindows(Decoded(scene), scene.W, BoundingRects(scene)))

(* Lines 67-68 and 117-124: the files detect_windows writes in debug mode *)
P(abs, ds, stem, ext) == [abs |-> abs, dirs |-> ds, stem |-> stem, ext |-> ext]
DetectDebugFiles(debug_mode) ==
    IF debug_mode
    THEN {P(FALSE, <<>>, "debug_binary", ".jpg"), P(FALSE, <<>>, "debug_detection", ".jpg")}
    ELSE {}

----------------------------------------------------------------------------
(* MountDetector.standardize_windows *)

(* Lines 134-137 *)
TargetSize(windows) ==
    Min(Min(windows[1].width, windows[2].width),
        Min(windows[1].height, windows[2].height))

(* the loop body taking the crop from the far corner: offsets not halved *)
StandardizeOneFromCorner(window, target_size) ==
    LET x_offset == window.width - target_size
        y_offset == window.height - target_size
        centered == Slice2D(window.image, y_offset, y_offset + target_size,
                            x_offset, x_offset + target_size, "center")
    IN  Window(window.x + x_offset, window.y + y_offset,
               target_size, target_size, centered)

(* Lines 141-158: one iteration of the loop *)
StandardizeOne(window, target_size) ==
    LET x_offset == (window.width - target_size) \div 2
        y_offset == (window.height - target_size) \div 2
        centered == Slice2D(window.image, y_offset, y_offset + target_size,
                            x_offset, x_offset + target_size, "center")
    IN  Window(window.x + x_offset, window.y + y_offset,
               target_size, target_size, centered)

(* cv2.imwrite raises cv2.error (assertion !_img.empty()) on an empty image *)
ImwriteRaises(img) == IsEmpty(img)
EmptyImageError == Raise("cv2.error", "Assertion failed", 0)

WindowCountMessage == "Expected 2 windows, found"

(* Lines 128-163.  In debug mode every centered image is written to        *)
(* debug_window_<k>.jpg inside the loop (lines 160-161).                    *)
standardize_windows(windows, debug_mode) ==
    IF Len(windows) # 2
    THEN Raised(Raise("ValueError", WindowCountMessage, Len(windows)), {})
    ELSE LET target_size == TargetSize(windows)
             standardized == [k \in 1..2 |-> StandardizeOne(windows[k], target_size)]
         IN  IF ~debug_mode THEN Returned(standardized, {})
             ELSE IF ImwriteRaises(standardized[1].image) THEN Raised(EmptyImageError, {})
             ELSE IF ImwriteRaises(standardized[2].image)
                  THEN Raised(EmptyImageError, {P(FALSE, <<>>, "debug_window_1", ".jpg")})
             ELSE Returned(standardized, {P(FALSE, <<>>, "debug_window_1", ".jpg"),
                                          P(FALSE, <<>>, "debug_window_2", ".jpg")})

(* extract_stereo_pair taking the two leftmost of several candidates *)
extract_first_two(scene, debug_mode) ==
    LET windows == detect_windows(scene)
        dbg == DetectDebugFiles(debug_mode)
    IN  IF Len(windows) < 2
        THEN Raised(Raise("ValueError", WindowCountMessage, Len(windows)), dbg)
        ELSE LET std == standardize_windows(SubSeq(windows, 1, 2), debug_mode)
             IN  IF Failed(std) THEN Raised(std.exc, dbg \cup std.files)
                 ELSE Returned(<<std.val[1].image, std.val[2].image>>, dbg \cup std.files)

(* Lines 165-173: extract_stereo_pair *)
extract_stereo_pair(scene, debug_mode) ==
    LET windows == detect_windows(scene)
        dbg == DetectDebugFiles(debug_mode)
    IN  IF Len(windows) # 2
        THEN Raised(Raise("ValueError", WindowCountMessage, Len(windows)), dbg)
        ELSE LET std == standardize_windows(windows, debug_mode)
             IN  IF Failed(std) THEN Raised(std.exc, dbg \cup std.files)
                 ELSE Returned(<<std.val[1].image, std.val[2].image>>, dbg \cup std.files)

----------------------------------------------------------------------------
(* VRConverter *)

(* resize_for_vr keeping the image's aspect ratio *)
resize_keep_aspect(img, target_width, target_height) ==
    Img(target_width, Max(1, (img.h * target_width) \div img.w),
        Append(img.px, <<"resize", target_width, target_height>>))

(* Lines 19-29: resize_for_vr, to exactly (target_width, target_height);    *)
(* cv2.resize raises cv2.error (assertion !ssize.empty()) on an empty image *)
resize_for_vr(img, target_width, target_height) ==
    Img(target_width, target_height, Append(img.px, <<"resize", target_width, target_height>>))

(* Lines 31-70: apply_barrel_distortion; cv2.remap's output has the size of *)
(* the coordinate maps, which are built with the image's rows and cols      *)
apply_barrel_distortion(img, strength_pct) ==
    Img(img.w, img.h, Append(img.px, <<"barrel", strength_pct>>))

(* Line 97: np.hstack((left_vr, right_vr)) raises ValueError unless the     *)
(* arrays agree on every axis but the horizontal one                        *)
hstack(a, b) ==
    IF a.h # b.h
    THEN Raised(Raise("ValueError", "all the input array dimensions except for the concatenation axis must match exactly", 0), {})
    ELSE Returned([w |-> a.w + b.w, h |-> a.h, px |-> << <<"hstack">> >>,
                   left |-> a, right |-> b], {})

(* Lines 72-97: create_vr_image with apply_distortion = True *)
create_vr_image(left_image, right_image, target_width, target_height) ==
    IF IsEmpty(left_image) \/ IsEmpty(right_image)
    THEN Raised(EmptyImageError, {})
    ELSE LET left_vr == apply_barrel_distortion(
                            resize_for_vr(left_image, target_width, target_height),
                            BARREL_STRENGTH_PCT)
             right_vr == apply_barrel_distortion(
                            resize_for_vr(right_image, target_width, target_height),
                            BARREL_STRENGTH_PCT)
         IN  hstack(left_vr, right_vr)

----------------------------------------------------------------------------
(* NoiseReducer *)

(* Lines 8-27: the parameters reduce_noise rewrites; the others ('d' 9,     *)
(* template window 7, search window 21, kernels 3) are never written        *)
FreshReducer == [sigma_color |-> 75, sigma_space |-> 75, h |-> 10]

Methods == {"bilateral", "nlm", "gaussian"}
Strengths == {"low", "medium", "high"}

(* Lines 44-52: the in-place rewrite of the presets; 'medium' writes nothing *)
AdjustParams(params, strength) ==
    IF strength = "low" THEN [sigma_color |-> 50, sigma_space |-> 50, h |-> 5]
    ELSE IF strength = "high" THEN [sigma_color |-> 100, sigma_space |-> 100, h |-> 15]
    ELSE params

(* Line 64 *)
GaussianKernel(strength) ==
    IF strength = "medium" THEN 5 ELSE IF strength = "low" THEN 3 ELSE 7

(* Lines 54-72: the selected filter, with the parameter values it was given *)
ApplyDenoise(img, method, strength, sigma_color, sigma_space, h) ==
    IF method = "nlm" THEN Img(img.w, img.h, Append(img.px, <<"nlm", h, 7, 21>>))
    ELSE IF method = "gaussian"
         THEN Img(img.w, img.h, Append(img.px, <<"gaussian", GaussianKernel(strength)>>))
    ELSE Img(img.w, img.h, Append(img.px, <<"bilateral", 9, sigma_color, sigma_space>>))

(* Lines 136-141 *)
apply_median_filter(img) == Img(img.w, img.h, Append(img.px, <<"median", 3>>))
(* Lines 79-111 *)
remove_dust_and_scratches(img) == Img(img.w, img.h, Append(img.px, <<"inpaint", 30, 3>>))
(* Lines 113-134 *)
remove_aging_artifacts(img) == Img(img.w, img.h, Append(img.px, <<"clahe", 2, 8>>))

DenoiseDebugFile(method, strength) ==
    P(FALSE, <<>>, "debug_denoised_" \o method \o "_" \o strength, ".jpg")
DustDebugFiles == {P(FALSE, <<>>, "debug_dust_mask", ".jpg"),
                   P(FALSE, <<>>, "debug_dust_removed", ".jpg")}
AgingDebugFile == P(FALSE, <<>>, "debug_aging_removed", ".jpg")

(* process_vintage_photo correcting the fading before it denoises *)
process_vintage_photo_aging_first(img, remove_dust, remove_aging, denoise_method, strength, params, debug_mode) ==
    LET dusted == IF remove_dust
                  THEN remove_dust_and_scratches(apply_median_filter(img)) ELSE img
        params2 == IF denoise_method # "none" THEN AdjustParams(params, strength)
                   ELSE params
        aged == IF remove_aging THEN remove_aging_artifacts(dusted) ELSE dusted
        denoised == IF denoise_method # "none"
                    THEN ApplyDenoise(aged, denoise_method, strength,
                                      params2.sigma_color, params2.sigma_space, params2.h)
                    ELSE aged
    IN  [exc |-> None, val |-> denoised, params |-> params2, files |-> {}]

(* Lines 143-162: process_vintage_photo on a reducer whose presets are      *)
(* `params`.  Returns the image and the presets it leaves behind.  Every    *)
(* cv2 filter raises cv2.error on an empty image; reduce_noise has already  *)
(* rewritten the presets when its filter raises.                            *)
process_vintage_photo(img, remove_dust, remove_aging, denoise_method, strength, params, debug_mode) ==
    LET dusted == IF remove_dust
                  THEN remove_dust_and_scratches(apply_median_filter(img)) ELSE img
        params2 == IF denoise_method # "none" THEN AdjustParams(params, strength)
                   ELSE params
        denoised == IF denoise_method # "none"
                    THEN ApplyDenoise(dusted, denoise_method, strength,
                                      params2.sigma_color, params2.sigma_space, params2.h)
                    ELSE dusted
        aged == IF remove_aging THEN remove_aging_artifacts(denoised) ELSE denoised
        dbg == IF debug_mode
               THEN (IF remove_dust THEN DustDebugFiles ELSE {})
                    \cup (IF denoise_method # "none"
                          THEN {DenoiseDebugFile(denoise_method, strength)} ELSE {})
                    \cup (IF remove_aging THEN {AgingDebugFile} ELSE {})
               ELSE {}
    IN  IF IsEmpty(img) /\ remove_dust
        THEN [exc |-> EmptyImageError, val |-> img, params |-> params, files |-> {}]
        ELSE IF IsEmpty(img) /\ denoise_method # "none"
        THEN [exc |-> EmptyImageError, val |-> img, params |-> params2, files |-> {}]
        ELSE IF IsEmpty(img) /\ remove_aging
        THEN [exc |-> EmptyImageError, val |-> img, params |-> params2, files |-> {}]
        ELSE [exc |-> None, val |-> aged, params |-> params2, files |-> dbg]

(* Lines 172-186: the strength process_stereo_pair passes on for each eye   *)
(* (1 = left, 2 = right): the one it was given                              *)
EyeStrength(eye, strength) == strength

(* Lines 164-188: process_stereo_pair, the left eye and then the right eye, *)
(* both with the options it was given                                       *)
process_stereo_pair(left_image, right_image, remove_dust, remove_aging, denoise_method, strength, params, debug_mode) ==
    LET l == process_vintage_photo(left_image, remove_dust, remove_aging,
                                   denoise_method, EyeStrength(1, strength),
                                   params, debug_mode)
        r == process_vintage_photo(right_image, remove_dust, remove_aging,
                                   denoise_method, EyeStrength(2, strength),
                                   l.params, debug_mode)
    IN  IF Failed(l) THEN Raised(l.exc, l.files)
        ELSE IF Failed(r) THEN Raised(r.exc, l.files \cup r.files)
        ELSE Returned(<<l.val, r.val>>, l.files \cup r.files)

----------------------------------------------------------------------------
(* ImageLoader.load_image, lines 37-44 *)
load_image(file) ==
    IF file.kind = "missing"
    THEN Raised(Raise("FileNotFoundError", "Image file not found", 0), {})
    ELSE IF file.kind = "undecodable"
    THEN Raised(Raise("ValueError", "Failed to load image", 0), {})
    ELSE Returned(Decoded(file.scene), {})

(* the exception classes load_image raises *)
LoaderErrorTypes == {"FileNotFoundError", "ValueError"}

----------------------------------------------------------------------------
(* ImageSaver *)
OutputDir == <<"output">>

(* Lines 47-48: the extension test on filename.lower() *)
HasImageExt(filename) == filename.ext \in {".png", ".jpg", ".jpeg", ".PNG", ".JPG", ".JPEG"}
WithExt(filename) ==
    IF HasImageExt(filename) THEN filename
    ELSE [filename EXCEPT !.stem = filename.stem \o filename.ext, !.ext = ".jpg"]

(* os.path.join(output_dir, filename): an absolute filename replaces the    *)
(* directory                                                                *)
JoinOutput(output_dir, filename) ==
    IF filename.abs THEN filename
    ELSE [filename EXCEPT !.dirs = output_dir \o filename.dirs]

(* Line 50 *)
SavePath(output_dir, filename) == JoinOutput(output_dir, WithExt(filename))

(* Lines 18-21: _ensure_output_dir *)
EnsureOutputDir(ds, output_dir) == ds \cup {output_dir}

(* cv2.imwrite returns False when the file cannot be opened for writing,    *)
(* as when its directory does not exist                                     *)
ImwriteOK(ds, path) == path.dirs = <<>> \/ path.dirs \in ds

(* Lines 23-26: _generate_filename("debug", ext) at time t *)
DebugCopyPath(output_dir, ext, t) ==
    P(FALSE, output_dir \o <<"debug">>, "debug_" \o ToString(t), ext)

----------------------------------------------------------------------------
(* main.py: main and process_slide *)
NoPath == P(FALSE, <<>>, "", "")
Msg(text, e, path) == [text |-> text, exc |-> e, path |-> path]
DebugContent == [kind |-> "debug"]

WriteFile(fs, path, content) ==
    [q \in DOMAIN fs \cup {path} |-> IF q = path THEN content ELSE fs[q]]
RECURSIVE WriteAll(_, _, _)
WriteAll(fs, paths, content) ==
    IF paths = {} THEN fs
    ELSE LET q == CHOOSE q \in paths : TRUE
         IN  WriteAll(WriteFile(fs, q, content), paths \ {q}, content)

(* the clock readings of the model *)
Seconds == {0, 1}

(* the command lines of the model *)
OutputPaths == {P(FALSE, <<>>, "out", ".jpg"),
                P(FALSE, <<>>, "out", ""),
                P(FALSE, <<"nodir">>, "out", ".png"),
                P(TRUE, <<"/", "tmp">>, "out", ".PNG")}
ArgSets == [output_path : OutputPaths, debug_mode : BOOLEAN,
            noise_reduction : {"none"} \cup Methods, noise_strength : Strengths,
            remove_dust : BOOLEAN, remove_aging : BOOLEAN]
File(kind, scene) == [kind |-> kind, scene |-> scene]
NoScene == Scene(0, "dark", <<>>)
InputFiles == {File("missing", NoScene), File("undecodable", NoScene)}
              \cup {File("image", sc) : sc \in PipeScenes}

(* Lines 47-48: `if noise_reduction or remove_dust or remove_aging` *)
RestorationRequested(a) ==
    a.noise_reduction # "none" \/ a.remove_dust \/ a.remove_aging
(* the requested method handed on as it is, None included *)
DenoiseMethodAsGiven(a) == a.noise_reduction

(* Line 55: `noise_reduction if noise_reduction else 'bilateral'` *)
DenoiseMethodArg(a) ==
    IF a.noise_reduction # "none" THEN a.noise_reduction ELSE "bilateral"

PipeInit ==
    /\ args \in ArgSets
    /\ infile \in InputFiles
    /\ pc = "main"
    /\ run = 1
    /\ image = NoImage
    /\ eyes = <<NoImage, NoImage>>
    /\ vr_image = NoImage
    /\ exc = None
    /\ stdout = <<>>
    /\ dirs = {<<"/", "tmp">>}
    /\ files = <<>>
    /\ written = {}
    /\ stages = <<>>
    /\ saved = NoPath
    /\ exitcode = -1
    /\ outcomes = <<>>
    /\ now = 0

PipeIdle ==
    /\ args = [output_path |-> NoPath, debug_mode |-> FALSE, noise_reduction |-> "none",
               noise_strength |-> "medium", remove_dust |-> FALSE, remove_aging |-> FALSE]
    /\ infile = File("missing", NoScene)
    /\ pc = "idle"
    /\ run = 0
    /\ image = NoImage
    /\ eyes = <<NoImage, NoImage>>
    /\ vr_image = NoImage
    /\ exc = None
    /\ stdout = <<>>
    /\ dirs = {}
    /\ files = <<>>
    /\ written = {}
    /\ stages = <<>>
    /\ saved = NoPath
    /\ exitcode = -1
    /\ outcomes = <<>>
    /\ now = 0

(* Lines 31-38: the components; ImageSaver("output") creates its directory *)
Construct ==
    /\ pc = "main"
    /\ dirs' = EnsureOutputDir(dirs, OutputDir)
    /\ pc' = "load"
    /\ UNCHANGED <<args, infile, run, image, eyes, vr_image, exc, stdout, files,
                   written, stages, saved, exitcode, outcomes, now>>
    /\ UNCHANGED otherThanPipe

(* a stage whose exception is swallowed: the run carries on *)
ContinueAfterStage(result, next) == next

(* where the run goes after a stage: to the except clause if it raised *)
AfterStage(result, next) == IF Failed(result) THEN "except" ELSE next

(* Line 42 *)
LoadImage ==
    /\ pc = "load"
    /\ LET r == load_image(infile)
       IN  /\ image' = IF Failed(r) THEN image ELSE r.val
           /\ exc' = r.exc
           /\ pc' = AfterStage(r, "extract")
    /\ stages' = Append(stages, "load")
    /\ UNCHANGED <<args, infile, run, eyes, vr_image, stdout, dirs, files,
                   written, saved, exitcode, outcomes, now>>
    /\ UNCHANGED otherThanPipe

(* Line 45 *)
ExtractStereoPair ==
    /\ pc = "extract"
    /\ LET r == extract_stereo_pair(infile.scene, args.debug_mode)
       IN  /\ eyes' = IF Failed(r) THEN eyes ELSE r.val
           /\ exc' = r.exc
           /\ pc' = AfterStage(r, "restore")
           /\ files' = WriteAll(files, r.files, DebugContent)
           /\ written' = written \cup r.files
    /\ stages' = Append(stages, "extract")
    /\ UNCHANGED <<args, infile, run, image, vr_image, stdout, dirs, saved,
                   exitcode, outcomes, now>>
    /\ UNCHANGED otherThanPipe

(* Lines 47-57 *)
Restore ==
    /\ pc = "restore"
    /\ IF RestorationRequested(args)
       THEN LET r == process_stereo_pair(eyes[1], eyes[2], args.remove_dust,
                         args.remove_aging, DenoiseMethodArg(args),
                         args.noise_strength, FreshReducer, args.debug_mode)
            IN  /\ eyes' = IF Failed(r) THEN eyes ELSE r.val
                /\ exc' = r.exc
                /\ pc' = AfterStage(r, "convert")
                /\ files' = WriteAll(files, r.files, DebugContent)
                /\ written' = written \cup r.files
                /\ stages' = Append(stages, "restore")
       ELSE /\ pc' = "convert"
            /\ UNCHANGED <<eyes, exc, files, written, stages>>
    /\ UNCHANGED <<args, infile, run, image, vr_image, stdout, dirs, saved,
                   exitcode, outcomes, now>>
    /\ UNCHANGED otherThanPipe

(* Line 60 *)
CreateVRImage ==
    /\ pc = "convert"
    /\ LET r == create_vr_image(eyes[1], eyes[2], VR_WIDTH, VR_HEIGHT)
       IN  /\ vr_image' = IF Failed(r) THEN vr_image ELSE r.val
           /\ exc' = r.exc
           /\ pc' = AfterStage(r, "save")
    /\ stages' = Append(stages, "convert")
    /\ UNCHANGED <<args, infile, run, image, eyes, stdout, dirs, files, written,
                   saved, exitcode, outcomes, now>>
    /\ UNCHANGED otherThanPipe

(* save_image naming its output with _generate_filename's timestamp *)
save_image_stamped(img, filename, create_debug, ds, fs, t) ==
    LET plain == SavePath(OutputDir, filename)
        filepath == [plain EXCEPT !.stem = plain.stem \o "_" \o ToString(t)]
    IN  IF ~ImwriteOK(ds, filepath)
        THEN [ret |-> NoPath,
              printed |-> << Msg("Error saving image", Raise("ValueError", "Failed to save image", 0), filepath) >>,
              dirs |-> ds, files |-> fs, wrote |-> {}]
        ELSE [ret |-> filepath, printed |-> <<>>, dirs |-> ds,
              files |-> WriteFile(fs, filepath, img), wrote |-> {filepath}]

(* ImageSaver.save_image, lines 33-70: the value it returns (NoPath for     *)
(* None), what it prints, and the directories and files it leaves.  The     *)
(* ValueError of line 54 is caught by the method's own except clause.       *)
save_image(img, filename, create_debug, ds, fs, t) ==
    LET filepath == SavePath(OutputDir, filename)
        success == ImwriteOK(ds, filepath)
        debug_dir == OutputDir \o <<"debug">>
        debug_filepath == DebugCopyPath(OutputDir, WithExt(filename).ext, t)
    IN  IF ~success
        THEN [ret |-> NoPath,
              printed |-> << Msg("Error saving image", Raise("ValueError", "Failed to save image", 0), filepath) >>,
              dirs |-> ds, files |-> fs, wrote |-> {}]
        ELSE IF create_debug
        THEN [ret |-> filepath, printed |-> <<>>,
              dirs |-> ds \cup {debug_dir},
              files |-> WriteFile(WriteFile(fs, filepath, img), debug_filepath, img),
              wrote |-> {filepath, debug_filepath}]
        ELSE [ret |-> filepath, printed |-> <<>>, dirs |-> ds,
              files |-> WriteFile(fs, filepath, img), wrote |-> {filepath}]

(* Line 63: the return value of save_image is not looked at *)
SaveImage ==
    /\ pc = "save"
    /\ LET r == save_image(vr_image, args.output_path, args.debug_mode, dirs, files, now)
       IN  /\ saved' = r.ret
           /\ stdout' = stdout \o r.printed
           /\ dirs' = r.dirs
           /\ files' = r.files
           /\ written' = written \cup r.wrote
    /\ pc' = "report"
    /\ stages' = Append(stages, "save")
    /\ UNCHANGED <<args, infile, run, image, eyes, vr_image, exc, exitcode,
                   outcomes, now>>
    /\ UNCHANGED otherThanPipe

(* Lines 65-66 *)
ReportSuccess ==
    /\ pc = "report"
    /\ stdout' = stdout \o << Msg("Successfully processed", None, NoPath),
                              Msg("Output saved to", None, args.output_path) >>
    /\ pc' = "return"
    /\ stages' = Append(stages, "report")
    /\ UNCHANGED <<args, infile, run, image, eyes, vr_image, exc, dirs, files,
                   written, saved, exitcode, outcomes, now>>
    /\ UNCHANGED otherThanPipe

(* Lines 68-69: `except Exception as e: print(...)`, then process_slide     *)
(* returns normally                                                         *)
HandleException ==
    /\ pc = "except"
    /\ stdout' = Append(stdout, Msg("Error processing slide", exc, NoPath))
    /\ pc' = "return"
    /\ stages' = Append(stages, "except")
    /\ UNCHANGED <<args, infile, run, image, eyes, vr_image, exc, dirs, files,
                   written, saved, exitcode, outcomes, now>>
    /\ UNCHANGED otherThanPipe

Absent == [kind |-> "absent"]
FileAt(fs, path) == IF path \in DOMAIN fs THEN fs[path] ELSE Absent

(* what a finished run leaves for its caller *)
Outcome ==
    [stdout |-> stdout, saved |-> saved, exitcode |-> 0,
     outfile |-> FileAt(files, SavePath(OutputDir, args.output_path)),
     wrote_output |-> SavePath(OutputDir, args.output_path) \in written]

(* Lines 93-104: process_slide has returned; main falls off its end and the *)
(* interpreter exits with status 0                                          *)
MainExit ==
    /\ pc = "return"
    /\ exitcode' = 0
    /\ outcomes' = Append(outcomes, Outcome)
    /\ pc' = "exit"
    /\ UNCHANGED <<args, infile, run, image, eyes, vr_image, exc, stdout, dirs,
                   files, written, stages, saved, now>>
    /\ UNCHANGED otherThanPipe

(* the same command line is run again, in the directory the previous run    *)
(* left, at the same second or later                                        *)
RunAgain ==
    /\ pc = "exit"
    /\ run < MaxRuns
    /\ \E t \in Seconds : t >= now /\ now' = t
    /\ run' = run + 1
    /\ pc' = "main"
    /\ image' = NoImage
    /\ eyes' = <<NoImage, NoImage>>
    /\ vr_image' = NoImage
    /\ exc' = None
    /\ stdout' = <<>>
    /\ written' = {}
    /\ stages' = <<>>
    /\ saved' = NoPath
    /\ exitcode' = -1
    /\ UNCHANGED <<args, infile, dirs, files, outcomes>>
    /\ UNCHANGED otherThanPipe

(* a call that has not been made yet *)
Pending == Raised(Raise("pending", "", 0), {})

StdIdle == stdIn = <<>> /\ stdDebug = FALSE /\ stdOut = Pending
VRIdle == vrIn = <<NoImage, NoImage>> /\ vrTarget = <<0, 0>>
          /\ vrOut = Pending /\ hsOut = Pending
DetIdle == detIn = NoScene /\ detOut = [done |-> FALSE, windows |-> <<>>]
ParIdle == /\ reducer = FreshReducer
           /\ popts = [remove_dust |-> FALSE, remove_aging |-> FALSE,
                       denoise_method |-> "none", strength |-> "medium",
                       debug_mode |-> FALSE]
           /\ eyeIn = <<NoImage, NoImage>>
           /\ epc = <<"idle", "idle">>
           /\ eyeImg = <<NoImage, NoImage>>
           /\ eyeLoc = <<FreshReducer, FreshReducer>>
           /\ dbgFiles = <<>>
           /\ overlap = FALSE
RnIdle == /\ rnParams = FreshReducer
          /\ rnDebug = FALSE
          /\ rnCalls = <<>>
          /\ rnFiles = {}
FltIdle == fltIn = <<0, 0, 0>> /\ fltOut = Pending
UnitIdle == RnIdle /\ FltIdle

Init == PipeInit /\ StdIdle /\ VRIdle /\ DetIdle /\ ParIdle /\ UnitIdle
Next ==
    \/ Construct \/ LoadImage \/ ExtractStereoPair \/ Restore \/ CreateVRImage
    \/ SaveImage \/ ReportSuccess \/ HandleException \/ MainExit \/ RunAgain
Spec == Init /\ [][Next]_vars

----------------------------------------------------------------------------
(* standardize_windows called on its own: any list of up to MaxSquares     *)
(* windows whose recorded sizes are the sizes of their images (as           *)
(* detect_windows builds them, lines 104-112), sides 0..MaxDim              *)
StdWindow(i, w, h) == Window(100 * i, 10 * i, w, h, Img(w, h, << <<"src", i, 0>> >>))
(* and pairs of larger windows, whose sides leave margins of several pixels *)
WideSides == {3, 5, 8}
StdLists ==
    UNION {{[i \in 1..k |-> StdWindow(i, f[i][1], f[i][2])]
            : f \in [1..k -> (0..MaxDim) \X (0..MaxDim)]} : k \in 0..MaxSquares}
    \cup {<<StdWindow(1, a, b), StdWindow(2, c, d)>> : a \in WideSides, b \in WideSides,
                                                      c \in WideSides, d \in WideSides}

StdInit == /\ stdIn \in StdLists
           /\ stdDebug \in BOOLEAN
           /\ stdOut = Pending
StandardizeCall ==
    /\ stdOut = Pending
    /\ stdOut' = standardize_windows(stdIn, stdDebug)
    /\ UNCHANGED <<stdIn, stdDebug, pipeVars, vrVars, detVars, parVars, unitVars>>
InitStd == StdInit /\ PipeIdle /\ VRIdle /\ DetIdle /\ ParIdle /\ UnitIdle
NextStd == StandardizeCall
SpecStd == InitStd /\ [][NextStd]_vars

----------------------------------------------------------------------------
(* create_vr_image and np.hstack called on their own: any two eye images    *)
(* with sides 0..MaxEye, on converters of several target sizes              *)
TargetSizes == {<<VR_WIDTH, VR_HEIGHT>>, <<4, 3>>, <<1, 1>>}
EyeImages(tag) == {Img(w, h, << <<"src", tag, 0>> >>) : w \in 0..MaxEye, h \in 0..MaxEye}

VRInit == /\ vrIn \in EyeImages(1) \X EyeImages(2)
          /\ vrTarget \in TargetSizes
          /\ vrOut = Pending
          /\ hsOut = Pending
CreateVRCall ==
    /\ vrOut = Pending
    /\ vrOut' = create_vr_image(vrIn[1], vrIn[2], vrTarget[1], vrTarget[2])
    /\ UNCHANGED <<vrIn, vrTarget, hsOut, pipeVars, stdVars, detVars, parVars, unitVars>>
HStackCall ==
    /\ hsOut = Pending
    /\ hsOut' = hstack(vrIn[1], vrIn[2])
    /\ UNCHANGED <<vrIn, vrTarget, vrOut, pipeVars, stdVars, detVars, parVars, unitVars>>
InitVR == VRInit /\ PipeIdle /\ StdIdle /\ DetIdle /\ ParIdle /\ UnitIdle
NextVR == CreateVRCall \/ HStackCall
SpecVR == InitVR /\ [][NextVR]_vars

----------------------------------------------------------------------------
(* detect_windows called on its own, on every scene of DetScenes *)
DetInit == /\ detIn \in DetScenes
           /\ detOut = [done |-> FALSE, windows |-> <<>>]
DetectCall ==
    /\ ~detOut.done
    /\ detOut' = [done |-> TRUE, windows |-> detect_windows(detIn)]
    /\ UNCHANGED <<detIn, pipeVars, stdVars, vrVars, parVars, unitVars>>
InitDetect == DetInit /\ PipeIdle /\ StdIdle /\ VRIdle /\ ParIdle /\ UnitIdle
NextDetect == DetectCall
SpecDetect == InitDetect /\ [][NextDetect]_vars

----------------------------------------------------------------------------
(* Properties *)

Ran(stage) == \E i \in DOMAIN stages : stages[i] = stage
Printed(text) == \E i \in DOMAIN stdout : stdout[i].text = text
OutputPath == SavePath(OutputDir, args.output_path)
MinOfFour(ws) == Min(Min(ws[1].width, ws[1].height), Min(ws[2].width, ws[2].height))

(* C1: for every list of exactly two windows whose recorded sizes are their *)
(* images' sizes, standardize_windows returns exactly two windows, in the   *)
(* same order, whose widths, heights and image sizes all equal the minimum  *)
(* of the four input dimensions.                                            *)
C1_StandardizerMinSquare ==
    (stdOut # Pending /\ Len(stdIn) = 2) =>
        /\ ~Failed(stdOut)
        /\ Len(stdOut.val) = 2
        /\ \A k \in 1..2 :
              /\ stdOut.val[k].width = MinOfFour(stdIn)
              /\ stdOut.val[k].height = MinOfFour(stdIn)
              /\ stdOut.val[k].image.w = MinOfFour(stdIn)
              /\ stdOut.val[k].image.h = MinOfFour(stdIn)
              /\ stdOut.val[k].image.px[1] = stdIn[k].image.px[1]

(* C1, the same statement for the calls it holds for: debug mode off, or no *)
(* window of size zero.                                                     *)
C1_HoldsUnlessDebugWritesEmpty ==
    (stdOut # Pending /\ Len(stdIn) = 2 /\ (~stdDebug \/ MinOfFour(stdIn) > 0)) =>
        /\ ~Failed(stdOut)
        /\ \A k \in 1..2 :
              /\ stdOut.val[k].width = MinOfFour(stdIn)
              /\ stdOut.val[k].height = MinOfFour(stdIn)
              /\ stdOut.val[k].image.w = MinOfFour(stdIn)
              /\ stdOut.val[k].image.h = MinOfFour(stdIn)
              /\ stdOut.val[k].image.px[1] = stdIn[k].image.px[1]

(* the failures of the other stages, as <<exception class, message>> *)
OtherFailures ==
    { <<"FileNotFoundError", "Image file not found">>,
      <<"ValueError", "Failed to load image">>,
      <<"ValueError", "Failed to save image">>,
      <<EmptyImageError.type, EmptyImageError.msg>>,
      <<hstack(Img(1, 1, <<>>), Img(1, 2, <<>>)).exc.type,
        hstack(Img(1, 1, <<>>), Img(1, 2, <<>>)).exc.msg>> }

(* C2: whenever the list of windows does not have exactly two elements,     *)
(* standardize_windows and extract_stereo_pair fail: no pair is returned,   *)
(* no two of several candidates are picked, and the failure is the          *)
(* window-count error (a ValueError "Expected 2 windows, found N"), which   *)
(* no other stage raises.                                                   *)
C2_WindowCountFailure ==
    (infile.kind = "image" /\ Ran("extract")
       /\ Len(detect_windows(infile.scene)) # 2) =>
        LET ws == detect_windows(infile.scene)
            e == Raise("ValueError", WindowCountMessage, Len(ws))
        IN  /\ exc = e
            /\ eyes = <<NoImage, NoImage>>
            /\ vr_image = NoImage
            /\ pc \in {"except", "return", "exit"}
            /\ standardize_windows(ws, args.debug_mode).exc = e
            /\ standardize_windows(ws, args.debug_mode).val = <<>>
            /\ <<e.type, e.msg>> \notin OtherFailures

C2_Witness ==
    /\ pc = "exit"
    /\ infile.kind = "image"
    /\ Len(detect_windows(infile.scene)) = 3
    /\ exc.msg = WindowCountMessage /\ exc.arg = 3

Positive(img) == img.w > 0 /\ img.h > 0

(* C6: for two eye images of any positive sizes create_vr_image returns a   *)
(* frame exactly 2 x target_width wide and target_height high whose left    *)
(* half is the left eye's projection; and the concatenation fails (numpy's  *)
(* ValueError) when the two images it is given differ in height.            *)
C6_FrameSizeAndMismatch ==
    /\ (vrOut # Pending /\ Positive(vrIn[1]) /\ Positive(vrIn[2])) =>
          /\ ~Failed(vrOut)
          /\ vrOut.val.w = 2 * vrTarget[1]
          /\ vrOut.val.h = vrTarget[2]
          /\ vrOut.val.left.w = vrTarget[1] /\ vrOut.val.left.h = vrTarget[2]
          /\ vrOut.val.right.w = vrTarget[1] /\ vrOut.val.right.h = vrTarget[2]
          /\ vrOut.val.left.px[1] = vrIn[1].px[1]
          /\ vrOut.val.right.px[1] = vrIn[2].px[1]
    /\ (hsOut # Pending /\ vrIn[1].h # vrIn[2].h) =>
          /\ Failed(hsOut)
          /\ hsOut.val = <<>>

C6_Witness ==
    /\ vrOut # Pending /\ ~Failed(vrOut)
    /\ vrIn[1].w = 1 /\ vrIn[1].h = 2 /\ vrIn[2].w = 2 /\ vrIn[2].h = 1
    /\ vrTarget = <<VR_WIDTH, VR_HEIGHT>>
    /\ vrOut.val.w = 4320 /\ vrOut.val.h = 1200
    /\ hsOut # Pending /\ Failed(hsOut)

(* the scene of the end-to-end scenario: 1000x500, black background, two    *)
(* white 180x180 squares at x = 100 and x = 650                             *)
ScenarioScene == Scene(1000, "dark", << <<180, 180>>, <<180, 180>> >>)
DefaultConfig == /\ args.noise_reduction = "none"
                 /\ ~args.remove_dust /\ ~args.remove_aging
                 /\ ~args.debug_mode

(* C7: end to end with the default configuration, the scenario scene gives  *)
(* exactly 2 detected windows, both standardized to 180x180 (no margin is   *)
(* cropped off the detected squares), and a final VR frame of 4320x1200.    *)
C7_EndToEndScenario ==
    (infile = File("image", ScenarioScene) /\ DefaultConfig
       /\ args.output_path = P(FALSE, <<>>, "out", ".jpg") /\ pc = "exit") =>
        /\ Len(detect_windows(infile.scene)) = 2
        /\ exc = None
        /\ \A k \in 1..2 : eyes[k].w = 180 /\ eyes[k].h = 180
        /\ vr_image.w = 4320 /\ vr_image.h = 1200

(* C7 with the polarity the detector handles (black squares on white): the  *)
(* two windows are found, but each has lost the 15-pixel staple margin.     *)
C7_DarkSquaresLoseMargin ==
    (infile = File("image", Scene(1000, "light", << <<180, 180>>, <<180, 180>> >>))
       /\ pc = "exit") =>
        /\ Len(detect_windows(infile.scene)) = 2
        /\ exc = None
        /\ \A k \in 1..2 : eyes[k].w = 150 /\ eyes[k].h = 150
        /\ vr_image.w = 4320 /\ vr_image.h = 1200

IsSortedByX(ws) == \A i \in 1..(Len(ws) - 1) : ws[i].x <= ws[i + 1].x
TwoSquaresInBounds(scene) ==
    /\ Len(scene.squares) = 2
    /\ \A i \in 1..2 : /\ scene.squares[i].w = scene.squares[i].h
                       /\ Accepted(scene.W, scene.squares[i])

(* C8: for any image with exactly two axis-aligned squares sized within the *)
(* ratio bounds, in either polarity, detect_windows returns exactly two     *)
(* candidates; and the list it returns is always sorted by ascending x.     *)
C8_TwoSquaresEitherPolarity ==
    detOut.done =>
        /\ IsSortedByX(detOut.windows)
        /\ TwoSquaresInBounds(detIn) => Len(detOut.windows) = 2

(* C8 for the polarity the detector handles, and the ordering for every     *)
(* scene.                                                                   *)
C8_DarkSquaresOnLight ==
    detOut.done =>
        /\ IsSortedByX(detOut.windows)
        /\ (TwoSquaresInBounds(detIn) /\ detIn.bg = "light") => Len(detOut.windows) = 2
        /\ detIn.bg = "dark" => detOut.windows = <<>>

(* the artifacts the stages write to the working directory in debug mode *)
DebugArtifacts ==
    DetectDebugFiles(TRUE) \cup DustDebugFiles \cup {AgingDebugFile}
    \cup {P(FALSE, <<>>, "debug_window_1", ".jpg"), P(FALSE, <<>>, "debug_window_2", ".jpg")}
    \cup {DenoiseDebugFile(m, st) : m \in Methods, st \in Strengths}

(* some stage before saving raised: exc is set by the load, extract,        *)
(* restore and convert stages only                                          *)
EarlyFailure == exc # None

(* C3 as stated: when a stage before saving fails, the failure propagates   *)
(* at once, no later stage runs, save_image is never invoked and the run    *)
(* produces no file at all, with and without debug mode.                    *)
C3_NoFileAtAll ==
    EarlyFailure =>
        /\ pc \in {"except", "return", "exit"}
        /\ ~Ran("save") /\ ~Ran("report")
        /\ written = {}

(* C3, amended: when a stage before saving fails (input missing or          *)
(* undecodable, window count other than 2, a filter or the projection       *)
(* raising), the run goes straight to the except clause, no later stage     *)
(* runs, save_image is never invoked and nothing is written under the       *)
(* output path; the run prints the error and nothing else.  The only files  *)
(* such a run leaves are the debug artifacts that the stages it did run     *)
(* wrote to the working directory, and none without debug mode.             *)
C3_EarlyFailureAborts ==
    /\ EarlyFailure =>
          /\ pc \in {"except", "return", "exit"}
          /\ ~Ran("save") /\ ~Ran("report")
          /\ saved = NoPath
          /\ OutputPath \notin written
          /\ written \subseteq DebugArtifacts
          /\ ~args.debug_mode => written = {}
          /\ pc # "except" => stdout = << Msg("Error processing slide", exc, NoPath) >>
    /\ (Ran("load") /\ infile.kind # "image") => EarlyFailure
    /\ (Ran("extract") /\ Len(detect_windows(infile.scene)) # 2) => EarlyFailure
    /\ (Ran("convert") /\ (IsEmpty(eyes[1]) \/ IsEmpty(eyes[2]))) => EarlyFailure

C3_Witness ==
    /\ pc = "exit"
    /\ args.debug_mode
    /\ infile.kind = "image"
    /\ Len(detect_windows(infile.scene)) = 1
    /\ exc.msg = WindowCountMessage /\ exc.arg = 1
    /\ written = DetectDebugFiles(TRUE)
    /\ stages = <<"load", "extract", "except">>

Succeeded == exc = None /\ Ran("save") /\ OutputPath \in written

(* C4: the command exits with status 0 exactly when the slide was processed *)
(* and written, and with a non-zero status and a message on any failure.    *)
C4_ExitCodeReflectsOutcome ==
    pc = "exit" =>
        /\ exitcode = 0 <=> Succeeded
        /\ ~Succeeded => (exitcode # 0 /\ stdout # <<>>)

(* C5: when writing the output file fails inside save_image, the run ends   *)
(* in failure and never reports that the slide was processed or saved.      *)
C5_WriteFailureIsFatal ==
    (Ran("save") /\ saved = NoPath) =>
        /\ ~Printed("Successfully processed")
        /\ ~Printed("Output saved to")
        /\ pc # "report"

(* C10: running the pipeline again on the same input with the same          *)
(* configuration and no restoration filters gives the same outcome (what    *)
(* is reported, where the frame is saved and what the saved frame holds),   *)
(* whatever the earlier run left behind.                                    *)
C10_Idempotent ==
    ~RestorationRequested(args) =>
        \A i \in 1..Len(outcomes) : outcomes[i] = outcomes[1]

C10_Witness ==
    /\ ~RestorationRequested(args)
    /\ args.debug_mode
    /\ Len(outcomes) = 2
    /\ now = 1
    /\ outcomes[2].wrote_output
    /\ outcomes[2].outfile = vr_image
    /\ outcomes[2].saved = OutputPath

----------------------------------------------------------------------------
(* The two eye chains run as two tasks on one NoiseReducer and one          *)
(* VRConverter: process_vintage_photo (noise_reducer.py lines 143-162) and  *)
(* then the projection (vr_converter.py lines 88-94), each eye at its own   *)
(* position, the steps of the two eyes interleaved in every order.  The     *)
(* eye images are not empty.                                                *)
Eyes == {1, 2}
Other(e) == 3 - e
EyeSides == {10, 150}
ParOptions == [remove_dust : BOOLEAN, remove_aging : BOOLEAN,
               denoise_method : {"none"} \cup Methods, strength : Strengths,
               debug_mode : BOOLEAN]

(* the steps of one eye's chain, in program order; reduce_noise (lines      *)
(* 44-72) is split into its writes of the presets and its reads of them     *)
Program(e) ==
    LET strength == EyeStrength(e, popts.strength)
    IN  <<"copy">>
        \o (IF popts.remove_dust THEN <<"median", "dust">> ELSE <<>>)
        \o (IF popts.denoise_method = "none" THEN <<>>
            ELSE (IF strength # "medium" THEN <<"w_sc", "w_ss", "w_h">> ELSE <<>>)
                 \o (IF popts.denoise_method = "nlm" THEN <<"r_h">>
                     ELSE IF popts.denoise_method = "gaussian" THEN <<>>
                     ELSE <<"r_sc", "r_ss">>)
                 \o <<"denoise">>)
        \o (IF popts.remove_aging THEN <<"aging">> ELSE <<>>)
        \o <<"resize", "barrel">>

Started(e) == epc[e] > 1
Done(e) == epc[e] > Len(Program(e))
At(e, step) == ~Done(e) /\ Program(e)[epc[e]] = step

ParInit ==
    /\ reducer = FreshReducer
    /\ popts \in ParOptions
    /\ \E n \in EyeSides :
          eyeIn = <<Img(n, n, << <<"src", 1, 0>> >>), Img(n, n, << <<"src", 2, 0>> >>)>>
    /\ epc = <<1, 1>>
    /\ eyeImg = <<NoImage, NoImage>>
    /\ eyeLoc = <<FreshReducer, FreshReducer>>
    /\ dbgFiles = <<>>
    /\ overlap = FALSE

(* eye e moves on to its next step *)
Advance(e) ==
    /\ epc' = [epc EXCEPT ![e] = @ + 1]
    /\ overlap' = (overlap \/ (Started(Other(e)) /\ ~Done(Other(e))))
    /\ UNCHANGED <<popts, eyeIn, pipeVars, stdVars, vrVars, detVars, unitVars>>

DebugWrite(e, paths) ==
    dbgFiles' = IF popts.debug_mode THEN WriteAll(dbgFiles, paths, [eye |-> e])
                ELSE dbgFiles

(* Line 150: result = image.copy() *)
Copy(e) ==
    /\ At(e, "copy")
    /\ eyeImg' = [eyeImg EXCEPT ![e] = eyeIn[e]]
    /\ Advance(e)
    /\ UNCHANGED <<reducer, eyeLoc, dbgFiles>>

(* Line 153 *)
Median(e) ==
    /\ At(e, "median")
    /\ eyeImg' = [eyeImg EXCEPT ![e] = apply_median_filter(@)]
    /\ Advance(e)
    /\ UNCHANGED <<reducer, eyeLoc, dbgFiles>>

(* Line 154 *)
Dust(e) ==
    /\ At(e, "dust")
    /\ eyeImg' = [eyeImg EXCEPT ![e] = remove_dust_and_scratches(@)]
    /\ DebugWrite(e, DustDebugFiles)
    /\ Advance(e)
    /\ UNCHANGED <<reducer, eyeLoc>>

(* Lines 46 and 50: self.BILATERAL_PARAMS['sigma_color'] = ... *)
WriteSigmaColor(e) ==
    /\ At(e, "w_sc")
    /\ reducer' = [reducer EXCEPT !.sigma_color =
                      AdjustParams(reducer, EyeStrength(e, popts.strength)).sigma_color]
    /\ Advance(e)
    /\ UNCHANGED <<eyeImg, eyeLoc, dbgFiles>>

(* Lines 47 and 51 *)
WriteSigmaSpace(e) ==
    /\ At(e, "w_ss")
    /\ reducer' = [reducer EXCEPT !.sigma_space =
                      AdjustParams(reducer, EyeStrength(e, popts.strength)).sigma_space]
    /\ Advance(e)
    /\ UNCHANGED <<eyeImg, eyeLoc, dbgFiles>>

(* Lines 48 and 52 *)
WriteH(e) ==
    /\ At(e, "w_h")
    /\ reducer' = [reducer EXCEPT !.h = AdjustParams(reducer, EyeStrength(e, popts.strength)).h]
    /\ Advance(e)
    /\ UNCHANGED <<eyeImg, eyeLoc, dbgFiles>>

(* Line 70: the argument self.BILATERAL_PARAMS['sigma_color'] is evaluated *)
ReadSigmaColor(e) ==
    /\ At(e, "r_sc")
    /\ eyeLoc' = [eyeLoc EXCEPT ![e].sigma_color = reducer.sigma_color]
    /\ Advance(e)
    /\ UNCHANGED <<reducer, eyeImg, dbgFiles>>

(* Line 71 *)
ReadSigmaSpace(e) ==
    /\ At(e, "r_ss")
    /\ eyeLoc' = [eyeLoc EXCEPT ![e].sigma_space = reducer.sigma_space]
    /\ Advance(e)
    /\ UNCHANGED <<reducer, eyeImg, dbgFiles>>

(* Line 59 *)
ReadH(e) ==
    /\ At(e, "r_h")
    /\ eyeLoc' = [eyeLoc EXCEPT ![e].h = reducer.h]
    /\ Advance(e)
    /\ UNCHANGED <<reducer, eyeImg, dbgFiles>>

(* Lines 55-77: the filter runs on the values read, then the debug write *)
Denoise(e) ==
    /\ At(e, "denoise")
    /\ eyeImg' = [eyeImg EXCEPT ![e] =
                     ApplyDenoise(@, popts.denoise_method, EyeStrength(e, popts.strength),
                                  eyeLoc[e].sigma_color, eyeLoc[e].sigma_space, eyeLoc[e].h)]
    /\ DebugWrite(e, {DenoiseDebugFile(popts.denoise_method, EyeStrength(e, popts.strength))})
    /\ Advance(e)
    /\ UNCHANGED <<reducer, eyeLoc>>

(* Line 160 *)
Aging(e) ==
    /\ At(e, "aging")
    /\ eyeImg' = [eyeImg EXCEPT ![e] = remove_aging_artifacts(@)]
    /\ DebugWrite(e, {AgingDebugFile})
    /\ Advance(e)
    /\ UNCHANGED <<reducer, eyeLoc>>

(* vr_converter.py lines 88-89 *)
Resize(e) ==
    /\ At(e, "resize")
    /\ eyeImg' = [eyeImg EXCEPT ![e] = resize_for_vr(@, VR_WIDTH, VR_HEIGHT)]
    /\ Advance(e)
    /\ UNCHANGED <<reducer, eyeLoc, dbgFiles>>

(* vr_converter.py lines 92-94 *)
Barrel(e) ==
    /\ At(e, "barrel")
    /\ eyeImg' = [eyeImg EXCEPT ![e] = apply_barrel_distortion(@, BARREL_STRENGTH_PCT)]
    /\ Advance(e)
    /\ UNCHANGED <<reducer, eyeLoc, dbgFiles>>

InitPar == ParInit /\ PipeIdle /\ StdIdle /\ VRIdle /\ DetIdle /\ UnitIdle
NextPar ==
    \/ \E e \in Eyes : Copy(e)
    \/ \E e \in Eyes : Median(e)
    \/ \E e \in Eyes : Dust(e)
    \/ \E e \in Eyes : WriteSigmaColor(e)
    \/ \E e \in Eyes : WriteSigmaSpace(e)
    \/ \E e \in Eyes : WriteH(e)
    \/ \E e \in Eyes : ReadSigmaColor(e)
    \/ \E e \in Eyes : ReadSigmaSpace(e)
    \/ \E e \in Eyes : ReadH(e)
    \/ \E e \in Eyes : Denoise(e)
    \/ \E e \in Eyes : Aging(e)
    \/ \E e \in Eyes : Resize(e)
    \/ \E e \in Eyes : Barrel(e)
SpecPar == InitPar /\ [][NextPar]_vars

(* what the eyes come out as when process_stereo_pair runs the left chain   *)
(* to its end and then the right chain, and each is then projected          *)
Project(img) == apply_barrel_distortion(resize_for_vr(img, VR_WIDTH, VR_HEIGHT),
                                        BARREL_STRENGTH_PCT)
SequentialPair ==
    process_stereo_pair(eyeIn[1], eyeIn[2], popts.remove_dust, popts.remove_aging,
                        popts.denoise_method, popts.strength, FreshReducer,
                        popts.debug_mode).val
SequentialResult(e) == Project(SequentialPair[e])

(* C9: in every interleaving of the two eye chains on one NoiseReducer and  *)
(* one VRConverter each eye's result equals its result under sequential     *)
(* execution, and neither eye's processing mutates state shared with the    *)
(* other eye (the reducer's presets stay as constructed).                   *)
C9_NoSharedState ==
    /\ \A e \in Eyes : Done(e) => eyeImg[e] = SequentialResult(e)
    /\ reducer = FreshReducer

(* The first half of C9 on its own: the results of an interleaved run are   *)
(* those of the sequential run.  Both eyes are given the same strength, so  *)
(* they write the same preset values, and each eye reads the presets only   *)
(* after its own writes.                                                    *)
C9_ResultsEqualSequential ==
    /\ \A e \in Eyes : Done(e) => eyeImg[e] = SequentialResult(e)
    /\ \A e \in Eyes :
          (popts.denoise_method # "none" /\ (At(e, "denoise") \/ Done(e)))
             => reducer = AdjustParams(FreshReducer, popts.strength)

(* an overlapped run at strength 'low' that has ended with the presets      *)
(* rewritten                                                                *)
C9_OverlappedRun ==
    /\ Done(1) /\ Done(2)
    /\ overlap
    /\ popts.strength = "low" /\ popts.denoise_method = "bilateral"
    /\ reducer # FreshReducer
    /\ eyeImg[1] = SequentialResult(1) /\ eyeImg[2] = SequentialResult(2)

(* C9, the preset write seen from the other eye: while the right eye has    *)
(* not yet run reduce_noise, the left eye's reduce_noise has already        *)
(* changed the presets the right eye will find                              *)
C9_PresetsWrittenUnderOtherEye ==
    /\ At(1, "r_ss") /\ At(2, "copy")
    /\ reducer.sigma_color # FreshReducer.sigma_color
    /\ overlap = FALSE

----------------------------------------------------------------------------
(* reduce_noise (noise_reducer.py lines 29-77) called again and again on    *)
(* one NoiseReducer, each call with any method and any strength             *)
MaxCalls == 3
RnImage == Img(10, 10, << <<"src", 1, 0>> >>)

RnInit ==
    /\ rnParams = FreshReducer
    /\ rnDebug \in BOOLEAN
    /\ rnCalls = <<>>
    /\ rnFiles = {}

(* Lines 44-77: the presets are rewritten for 'low' and 'high', the filter  *)
(* runs on the presets as they are now, the debug copy is written           *)
ReduceNoiseCall ==
    /\ Len(rnCalls) < MaxCalls
    /\ \E method \in Methods, strength \in Strengths :
          LET params == AdjustParams(rnParams, strength)
              result == ApplyDenoise(RnImage, method, strength, params.sigma_color,
                                     params.sigma_space, params.h)
          IN  /\ rnParams' = params
              /\ rnCalls' = Append(rnCalls, [method |-> method, strength |-> strength,
                                             result |-> result])
              /\ rnFiles' = IF rnDebug THEN rnFiles \cup {DenoiseDebugFile(method, strength)}
                            ELSE rnFiles
    /\ UNCHANGED <<rnDebug, fltVars, pipeVars, stdVars, vrVars, detVars, parVars>>

InitReduce == RnInit /\ FltIdle /\ PipeIdle /\ StdIdle /\ VRIdle /\ DetIdle /\ ParIdle
NextReduce == ReduceNoiseCall
SpecReduce == InitReduce /\ [][NextReduce]_vars

(* the preset the specification gives for a strength *)
Preset(strength) ==
    IF strength = "low" THEN [sigma_color |-> 50, sigma_space |-> 50, h |-> 5]
    ELSE IF strength = "high" THEN [sigma_color |-> 100, sigma_space |-> 100, h |-> 15]
    ELSE [sigma_color |-> 75, sigma_space |-> 75, h |-> 10]

(* C11: after any sequence of reduce_noise calls on one instance, every     *)
(* call has filtered with the preset of its own strength (bilateral sigma   *)
(* 50/75/100, NLM h 5/10/15), whatever the strengths of the earlier calls.  *)
C11_PresetDependsOnlyOnStrength ==
    \A i \in 1..Len(rnCalls) :
        LET c == rnCalls[i]
        IN  c.result = ApplyDenoise(RnImage, c.method, c.strength,
                                    Preset(c.strength).sigma_color,
                                    Preset(c.strength).sigma_space,
                                    Preset(c.strength).h)

(* a 'medium' bilateral call after a 'low' call has filtered with sigma 50  *)
C11_MediumAfterLow ==
    /\ Len(rnCalls) = 2
    /\ rnCalls[1].strength = "low"
    /\ rnCalls[2].strength = "medium" /\ rnCalls[2].method = "bilateral"
    /\ rnCalls[2].result.px[2] = <<"bilateral", 9, 50, 50>>

----------------------------------------------------------------------------
(* The filter of detect_windows (mount_detector.py lines 73-76 and 86-95)   *)
(* on one bounding rectangle: any image width 1..MaxWidth, any rectangle    *)
(* sides 1..MaxSide (cv2.boundingRect gives sides of at least 1)            *)
MaxWidth == 30
MaxSide == 12

FltInit ==
    /\ fltIn \in (1..MaxWidth) \X (1..MaxSide) \X (1..MaxSide)
    /\ fltOut = Pending

(* Lines 75-76 and 93-95 *)
FilterCall ==
    /\ fltOut = Pending
    /\ fltOut' = Returned(Accepted(fltIn[1], Rect(0, 0, fltIn[2], fltIn[3])), {})
    /\ UNCHANGED <<fltIn, rnVars, pipeVars, stdVars, vrVars, detVars, parVars>>

InitFilter == FltInit /\ RnIdle /\ PipeIdle /\ StdIdle /\ VRIdle /\ DetIdle /\ ParIdle
NextFilter == FilterCall
SpecFilter == InitFilter /\ [][NextFilter]_vars

(* 0.1 W < w < 0.4 W, 0.1 W < h < 0.4 W and |1 - w/h| < 0.1 over the        *)
(* rationals, multiplied out                                                *)
ExactlyInRange(W, w, h) ==
    /\ W < 10 * w /\ 10 * w < 4 * W
    /\ W < 10 * h /\ 10 * h < 4 * W
    /\ 10 * Abs(h - w) < h

(* C12: a bounding rectangle w x h in an image of width W is accepted iff   *)
(* 0.1 W < w < 0.4 W and 0.1 W < h < 0.4 W and |1 - w/h| < 0.1, for all     *)
(* positive integers W, w, h.                                               *)
C12_AcceptedIffExactBounds ==
    fltOut # Pending => (fltOut.val <=> ExactlyInRange(fltIn[1], fltIn[2], fltIn[3]))

(* where the code and the exact bounds part: a 4 x 4 rectangle in an image  *)
(* 11 wide is rejected (int(4.4) = 4), a 9 x 10 rectangle in an image 30    *)
(* wide is accepted (1 - 9/10 is 0.09999999999999998 in doubles)            *)
C12_TruncatedUpperBound ==
    fltIn = <<11, 4, 4>> /\ fltOut # Pending /\ ~fltOut.val
C12_RoundedAspect ==
    fltIn = <<30, 9, 10>> /\ fltOut # Pending /\ fltOut.val

(* what does hold: the code's test is the exact one with the upper bound    *)
(* truncated to an integer and the ratio 9/10 let through                   *)
C12_AcceptedIffTruncatedBounds ==
    fltOut # Pending =>
        (fltOut.val <=>
            /\ fltIn[1] < 10 * fltIn[2] /\ fltIn[2] < (4 * fltIn[1]) \div 10
            /\ fltIn[1] < 10 * fltIn[3] /\ fltIn[3] < (4 * fltIn[1]) \div 10
            /\ (10 * Abs(fltIn[3] - fltIn[2]) < fltIn[3] \/ 10 * fltIn[2] = 9 * fltIn[3]))

----------------------------------------------------------------------------
(* |width / height - 1| <= 0.1 over the rationals, multiplied out *)
NearlySquare(width, height) == 10 * Abs(width - height) <= height

(* C13: every Window returned by detect_windows satisfies                   *)
(* |width / height - 1| <= 0.1 on the width and height recorded in it.      *)
C13_ReturnedWindowsNearlySquare ==
    detOut.done =>
        \A i \in 1..Len(detOut.windows) :
            NearlySquare(detOut.windows[i].width, detOut.windows[i].height)

(* a 110 x 120 rectangle (error 1/12) has come back as an 80 x 90 window    *)
(* (error 1/9): the staple margin is cut off after the aspect test          *)
C13_SkewedByStapleCrop ==
    /\ detOut.done
    /\ detIn.W = 1000 /\ detIn.bg = "light"
    /\ \E i \in 1..Len(detIn.squares) : detIn.squares[i].w = 110 /\ detIn.squares[i].h = 120
    /\ \E i \in 1..Len(detOut.windows) :
          detOut.windows[i].width = 80 /\ detOut.windows[i].height = 90

(* what does hold: the rectangle each returned window was cut from, its     *)
(* recorded size with the two staple margins put back, is nearly square     *)
C13_NearlySquareBeforeStapleCrop ==
    detOut.done =>
        \A i \in 1..Len(detOut.windows) :
            detOut.windows[i].width > 0 =>
                NearlySquare(detOut.windows[i].width + 2 * STAPLE_MARGIN,
                             detOut.windows[i].height + 2 * STAPLE_MARGIN)

(* C16: every Window returned by detect_windows has width > 0, height > 0   *)
(* and a non-empty image whose dimensions are the recorded ones, for every  *)
(* image width and every accepted rectangle (also those smaller than twice  *)
(* the staple margin).                                                      *)
C16_ReturnedWindowsNonEmpty ==
    detOut.done =>
        \A i \in 1..Len(detOut.windows) :
            LET win == detOut.windows[i]
            IN  /\ win.width > 0 /\ win.height > 0
                /\ ~IsEmpty(win.image)
                /\ win.image.w = win.width /\ win.image.h = win.height

(* a 25 x 25 rectangle in an image 200 wide has passed the filter and come  *)
(* back as a 0 x 0 window: image[15:10, 15:10] is empty                     *)
C16_EmptyWindowReturned ==
    /\ detOut.done
    /\ detIn.W = 200 /\ detIn.bg = "light"
    /\ \E i \in 1..Len(detOut.windows) :
          /\ detOut.windows[i].width = 0 /\ detOut.windows[i].height = 0
          /\ IsEmpty(detOut.windows[i].image)

(* what does hold: the recorded size is the size of the image, and windows  *)
(* cut from rectangles with both sides above twice the margin are not empty *)
C16_RecordedSizeIsImageSize ==
    detOut.done =>
        \A i \in 1..Len(detOut.windows) :
            LET win == detOut.windows[i]
            IN  /\ win.image.w = win.width /\ win.image.h = win.height
                /\ (min_window_size(detIn.W) >= 2 * STAPLE_MARGIN)
                      => (win.width > 0 /\ win.height > 0)

----------------------------------------------------------------------------
(* C14: in standardize_windows each window is center-cropped with offsets   *)
(* x_offset = (width - target_size) // 2, y_offset = (height - target_size) *)
(* // 2; both are >= 0, offset + target_size stays within the window's own  *)
(* width / height, the margins on opposite sides differ by at most 1 pixel, *)
(* and the returned rectangle's origin is the input origin moved by         *)
(* (x_offset, y_offset).  The offsets are read off the returned windows:    *)
(* the displacement of the origin and the region the image was cut from.    *)
C14_CenteredCropWithinWindow ==
    (stdOut # Pending /\ ~Failed(stdOut)) =>
        \A k \in 1..2 :
            LET win == stdIn[k]
                out == stdOut.val[k]
                target_size == out.width
                x_offset == out.x - win.x
                y_offset == out.y - win.y
            IN  /\ x_offset = (win.width - target_size) \div 2
                /\ y_offset = (win.height - target_size) \div 2
                /\ x_offset >= 0 /\ y_offset >= 0
                /\ x_offset + target_size <= win.width
                /\ y_offset + target_size <= win.height
                /\ Abs((win.width - target_size - x_offset) - x_offset) <= 1
                /\ Abs((win.height - target_size - y_offset) - y_offset) <= 1
                /\ out.image.px[Len(out.image.px)]
                      = <<"center", x_offset, y_offset, target_size, target_size>>

(* an 8 x 5 and a 5 x 3 window have been standardized to 3 x 3: the first   *)
(* with margins 2 and 3 left and right, 1 and 1 above and below             *)
C14_Witness ==
    /\ stdOut # Pending /\ ~Failed(stdOut)
    /\ stdIn[1].width = 8 /\ stdIn[1].height = 5
    /\ stdIn[2].width = 5 /\ stdIn[2].height = 3
    /\ stdOut.val[1].x = stdIn[1].x + 2 /\ stdOut.val[1].y = stdIn[1].y + 1
    /\ stdOut.val[2].x = stdIn[2].x + 1 /\ stdOut.val[2].y = stdIn[2].y
    /\ stdOut.val[1].image.w = 3 /\ stdOut.val[1].image.h = 3

----------------------------------------------------------------------------
(* the operations behind an image, without their parameters *)
Tags(img) == [i \in 1..Len(img.px) |-> img.px[i][1]]
(* the operations applied after the source was read, with their parameters *)
Applied(img) == SubSeq(img.px, 2, Len(img.px))

(* median -> dust-mask inpainting -> denoise -> fade correction, each one   *)
(* present iff its option is on                                             *)
ExpectedChain(o) ==
    (IF o.remove_dust THEN <<"median", "inpaint">> ELSE <<>>)
    \o (IF o.denoise_method # "none" THEN <<o.denoise_method>> ELSE <<>>)
    \o (IF o.remove_aging THEN <<"clahe">> ELSE <<>>)

(* C15: process_vintage_photo applies median filter, dust inpainting,       *)
(* denoise and fade correction in that order, each on the output of the     *)
(* one before; a disabled option removes only its own stages; and           *)
(* process_stereo_pair runs the chain with the same options on both eyes.   *)
(* Stated for the pair process_stereo_pair returns and for the two chains   *)
(* once they have run to the end (the projection's resize and distortion    *)
(* follow the chain).                                                       *)
C15_FilterOrder ==
    /\ \A e \in Eyes :
          /\ Tags(SequentialPair[e]) = <<"src">> \o ExpectedChain(popts)
          /\ SequentialPair[e].px[1] = eyeIn[e].px[1]
    /\ Applied(SequentialPair[1]) = Applied(SequentialPair[2])
    /\ \A e \in Eyes :
          Done(e) => Tags(eyeImg[e]) = <<"src">> \o ExpectedChain(popts)
                                       \o <<"resize", "barrel">>
    /\ (Done(1) /\ Done(2)) => Applied(eyeImg[1]) = Applied(eyeImg[2])

(* both chains have run with every option on *)
C15_Witness ==
    /\ Done(1) /\ Done(2)
    /\ popts.remove_dust /\ popts.remove_aging /\ popts.denoise_method = "nlm"
    /\ popts.strength = "high"
    /\ Tags(eyeImg[1]) = <<"src", "median", "inpaint", "nlm", "clahe", "resize", "barrel">>
    /\ Tags(SequentialPair[2]) = <<"src", "median", "inpaint", "nlm", "clahe">>

----------------------------------------------------------------------------
HasOp(img, op) == \E i \in 1..Len(img.px) : img.px[i] = op
(* the denoise operation process_slide's arguments lead to: the requested   *)
(* method, or bilateral when none was requested, with the parameters of the *)
(* strength on a freshly constructed NoiseReducer                           *)
DenoiseOpOf(a) ==
    LET method == IF a.noise_reduction = "none" THEN "bilateral" ELSE a.noise_reduction
        params == AdjustParams(FreshReducer, a.noise_strength)
    IN  IF method = "nlm" THEN <<"nlm", params.h, 7, 21>>
        ELSE IF method = "gaussian" THEN <<"gaussian", GaussianKernel(a.noise_strength)>>
        ELSE <<"bilateral", 9, params.sigma_color, params.sigma_space>>

(* C17: in process_slide the restoration stage runs iff at least one of     *)
(* noise_reduction, remove_dust, remove_aging is set, and whenever it has   *)
(* run, a denoise filter has been applied to both eyes: the requested       *)
(* method, or bilateral at the given strength when none was requested.      *)
C17_RestorationAlwaysDenoises ==
    /\ Ran("restore") => (args.noise_reduction # "none" \/ args.remove_dust
                          \/ args.remove_aging)
    /\ Ran("convert") =>
          /\ Ran("restore") <=> (args.noise_reduction # "none" \/ args.remove_dust
                                 \/ args.remove_aging)
          /\ Ran("restore") => \A k \in 1..2 : HasOp(eyes[k], DenoiseOpOf(args))
          /\ ~Ran("restore") =>
                \A k \in 1..2 : \A i \in 1..Len(eyes[k].px) :
                    eyes[k].px[i][1] \notin Methods \cup {"median", "inpaint", "clahe"}

(* a run asked for dust removal only and its eyes went on to the projection *)
(* with bilateral denoising at sigma 100 applied                            *)
C17_Witness ==
    /\ Ran("convert")
    /\ args.noise_reduction = "none" /\ args.remove_dust /\ ~args.remove_aging
    /\ args.noise_strength = "high"
    /\ \A k \in 1..2 : /\ HasOp(eyes[k], <<"bilateral", 9, 100, 100>>)
                       /\ HasOp(eyes[k], <<"median", 3>>)

----------------------------------------------------------------------------
(* the path process_slide printed after 'Output saved to' *)
ReportedPath == (CHOOSE i \in DOMAIN stdout : stdout[i].text = "Output saved to")
SuccessfulRun == Printed("Output saved to") /\ saved # NoPath

(* C18: on a successful run the path save_image wrote the frame to is the   *)
(* output_path process_slide reports as 'Output saved to', for every        *)
(* output_path: relative or absolute, with or without an image extension.   *)
C18_ReportedPathIsWrittenPath ==
    SuccessfulRun =>
        /\ stdout[ReportedPath].path = saved
        /\ stdout[ReportedPath].path \in DOMAIN files
        /\ stdout[ReportedPath].path \in written

(* a run given the relative path out.jpg has reported out.jpg and written   *)
(* output/out.jpg; nothing exists at out.jpg                                *)
C18_RelativePathMisreported ==
    /\ SuccessfulRun
    /\ args.output_path = P(FALSE, <<>>, "out", ".jpg")
    /\ stdout[ReportedPath].path = P(FALSE, <<>>, "out", ".jpg")
    /\ saved = P(FALSE, <<"output">>, "out", ".jpg")
    /\ saved \in written
    /\ P(FALSE, <<>>, "out", ".jpg") \notin DOMAIN files

(* what does hold: the frame is at os.path.join('output', output_path with  *)
(* '.jpg' appended unless it has an image extension), which is the reported *)
(* path only for an absolute output_path that has an image extension        *)
C18_WrittenPathIsJoinedPath ==
    SuccessfulRun =>
        /\ saved = SavePath(OutputDir, args.output_path)
        /\ saved \in written /\ files[saved] = vr_image
        /\ stdout[ReportedPath].path = args.output_path
        /\ (saved = args.output_path) <=>
              (args.output_path.abs /\ HasImageExt(args.output_path))

====
